---- MODULE Spec2Model ----
(***************************************************************************)
(* Model of the retrieval-augmented question pipeline of the Bulgarian     *)
(* DZI question generator: the Deduplication Gate (is_duplicate_question), *)
(* the Quality Validator (validate_question_quality), the admission of     *)
(* generated candidates into the session corpus, and the embedding index   *)
(* with its cache (EmbeddingCache, RAGQuestionGenerator,                   *)
(* MaturaVectorAnalyzer).                                                  *)
(*                                                                         *)
(* Strings are sequences of one-character strings, so that str.strip(),    *)
(* str.lower(), str.split() and the ordering used by sorted() are computed *)
(* as Python computes them.                                                *)
(***************************************************************************)
EXTENDS Integers, Sequences, FiniteSets, Bags, TLC

VARIABLES
    \* Deduplication Gate: the arguments of one is_duplicate_question call
    \* and what the two implementations returned.
    g_question, g_existing, g_result,
    \* Quality Validator: the candidate and the validation dict returned.
    v_question, v_validation,
    \* Admission of generated candidates: which app runs the session, the
    \* session's real_questions and generated_questions, and what the last
    \* run of the generate handler did.
    m_app, real_questions, generated_questions, m_report,
    \* Embedding index: the data files, the cache file, the EmbeddingCache
    \* object, the RAGQuestionGenerator, the MaturaVectorAnalyzer, and the
    \* last call with what it returned.
    files, cache, ec, gen, ana, res,
    \* SimpleRAGGenerator: whether OPENAI_API_KEY is set, the generator
    \* object, and the last call with what it returned.
    openai_api_key, simple_rag, simple_res,
    \* _parse_generated_question: the completion text and what was returned.
    generated_text, parsed,
    \* generate_question_variants: whether the generator has a language model
    \* (OPENAI_API_KEY was set at construction), and the last call with what
    \* it returned.
    llm, variants,
    \* load_real_questions of the all-questions app: the records read from
    \* the data files and the list returned.
    l_questions, l_unique

vars == <<g_question, g_existing, g_result, v_question, v_validation,
          m_app, real_questions, generated_questions, m_report,
          files, cache, ec, gen, ana, res,
          openai_api_key, simple_rag, simple_res, generated_text, parsed,
          llm, variants, l_questions, l_unique>>

gateVars == <<g_question, g_existing, g_result>>
validatorVars == <<v_question, v_validation>>
mutatorVars == <<m_app, real_questions, generated_questions, m_report>>
indexVars == <<files, cache, ec, gen, ana, res>>
simpleVars == <<openai_api_key, simple_rag, simple_res>>
parserVars == <<generated_text, parsed>>
variantVars == <<llm, variants>>
loadVars == <<l_questions, l_unique>>

-----------------------------------------------------------------------------
(* Python string primitives *)

\* Code point order of the characters of the model's alphabet.
Ord(c) ==
    CASE c = " " -> 32
      [] c = "A" -> 65
      [] c = "B" -> 66
      [] c = "C" -> 67
      [] c = "D" -> 68
      [] c = "E" -> 69
      [] c = "_" -> 95
      [] c = "a" -> 97
      [] c = "b" -> 98
      [] c = "c" -> 99
      [] c = "d" -> 100
      [] OTHER -> 120

IsSpace(c) == c = " "

LowerChar(c) ==
    CASE c = "A" -> "a"
      [] c = "B" -> "b"
      [] c = "C" -> "c"
      [] c = "D" -> "d"
      [] c = "E" -> "e"
      [] OTHER -> c

\* str.lower()
Lower(s) == [i \in 1..Len(s) |-> LowerChar(s[i])]

RECURSIVE LStrip(_)
LStrip(s) ==
    IF s = <<>> THEN s
    ELSE IF IsSpace(Head(s)) THEN LStrip(Tail(s)) ELSE s

RECURSIVE RStrip(_)
RStrip(s) ==
    IF s = <<>> THEN s
    ELSE IF IsSpace(s[Len(s)]) THEN RStrip(SubSeq(s, 1, Len(s) - 1)) ELSE s

\* str.strip()
Strip(s) == RStrip(LStrip(s))

\* len(s.split()): the number of maximal runs of non-whitespace characters.
WordCount(s) ==
    Cardinality({i \in 1..Len(s) :
        /\ ~IsSpace(s[i])
        /\ (i = 1 \/ IsSpace(s[i - 1]))})

\* s < t for Python strings: lexicographic by code point.
RECURSIVE StrLess(_, _)
StrLess(s, t) ==
    IF t = <<>> THEN FALSE
    ELSE IF s = <<>> THEN TRUE
    ELSE IF Ord(Head(s)) < Ord(Head(t)) THEN TRUE
    ELSE IF Ord(Head(s)) > Ord(Head(t)) THEN FALSE
    ELSE StrLess(Tail(s), Tail(t))

RECURSIVE InsertSorted(_, _)
InsertSorted(x, xs) ==
    IF xs = <<>> THEN <<x>>
    ELSE IF StrLess(Head(xs), x) THEN <<Head(xs)>> \o InsertSorted(x, Tail(xs))
    ELSE <<x>> \o xs

\* sorted(list of str)
RECURSIVE Sorted(_)
Sorted(xs) ==
    IF xs = <<>> THEN <<>>
    ELSE InsertSorted(Head(xs), Sorted(Tail(xs)))

\* dict.get(key, default)
Get(d, key, default) == IF key \in DOMAIN d THEN d[key] ELSE default

\* [opt.strip().lower() for opt in options]
StripLowerAll(options) == [i \in 1..Len(options) |-> Lower(Strip(options[i]))]

\* The elements of a sequence.
Range(xs) == {xs[i] : i \in 1..Len(xs)}

-----------------------------------------------------------------------------
(* Deduplication Gate *)

\* The repeated-append mutant of the comparison below: the option lists are
\* compared without being sorted.
IsDuplicateOfUnsorted(question, existing) ==
    /\ Lower(Strip(Get(question, "question", <<>>)))
         = Lower(Strip(Get(existing, "question", <<>>)))
    /\ StripLowerAll(Get(question, "options", <<>>))
         = StripLowerAll(Get(existing, "options", <<>>))

\* app_real_matura.py: the test in the loop body of is_duplicate_question.
IsDuplicateOf(question, existing) ==
    LET question_text == Lower(Strip(Get(question, "question", <<>>)))
        question_options == Sorted(StripLowerAll(Get(question, "options", <<>>)))
        existing_text == Lower(Strip(Get(existing, "question", <<>>)))
        existing_options == Sorted(StripLowerAll(Get(existing, "options", <<>>)))
    IN  question_text = existing_text /\ question_options = existing_options

\* app_real_matura.py is_duplicate_question: True at the first existing
\* record that matches, False when the loop ends.
is_duplicate_question(question, existing_questions) ==
    \E i \in 1..Len(existing_questions) :
        IsDuplicateOf(question, existing_questions[i])

\* app_all_questions.py: the nested test of its own is_duplicate_question
\* (text first, then the lengths, then the sorted lists).
IsDuplicateOfAll(new_q, existing_q) ==
    IF Lower(Strip(Get(new_q, "question", <<>>)))
         = Lower(Strip(Get(existing_q, "question", <<>>)))
    THEN LET new_options == Get(new_q, "options", <<>>)
             existing_options == Get(existing_q, "options", <<>>)
         IN  IF Len(new_options) = Len(existing_options)
             THEN Sorted(StripLowerAll(new_options))
                    = Sorted(StripLowerAll(existing_options))
             ELSE FALSE
    ELSE FALSE

is_duplicate_question_all(new_q, existing_questions) ==
    \E i \in 1..Len(existing_questions) :
        IsDuplicateOfAll(new_q, existing_questions[i])

\* Bounds of the gate's inputs.
GateMaxOptions == 2
GateMaxCorpus == 1

GateTexts == { <<"a", "b">>, <<" ", "A", "b", " ">>, <<"a", "c">> }
GateOptionAtoms == { <<"a">>, <<"A", " ">>, <<"b">> }
GateOptionLists == UNION { [1..n -> GateOptionAtoms] : n \in 0..GateMaxOptions }
GateRecords ==
    [question : GateTexts, options : GateOptionLists]
      \cup { [question |-> <<"a", "b">>] }
GateCorpora == UNION { [1..n -> GateRecords] : n \in 0..GateMaxCorpus }
\* The candidate of a call: one question text, every option list, and a
\* record without options; the corpus varies over every text.
GateCandidates == { r \in GateRecords : r.question = <<"a", "b">> }

\* No call has returned yet.
NotCalled == [called |-> FALSE, real_matura |-> FALSE, all_questions |-> FALSE]

GateInit ==
    /\ g_question \in GateCandidates
    /\ g_existing \in GateCorpora
    /\ g_result = NotCalled

\* One call of each implementation on the same arguments.
CheckDuplicate ==
    /\ ~g_result.called
    /\ g_result' = [called |-> TRUE,
                    real_matura |-> is_duplicate_question(g_question, g_existing),
                    all_questions |-> is_duplicate_question_all(g_question, g_existing)]
    /\ UNCHANGED <<g_question, g_existing>>

GateNext == CheckDuplicate /\ UNCHANGED <<validatorVars, mutatorVars, indexVars, simpleVars, parserVars, variantVars, loadVars>>

\* The Deduplication Gate as section 4.5 states it: some existing record has
\* the same trimmed, lowercased text and the same collection (multiset) of
\* trimmed, lowercased options.
CountOf(x, xs) == Cardinality({i \in 1..Len(xs) : xs[i] = x})
SameCollection(xs, ys) ==
    /\ Len(xs) = Len(ys)
    /\ \A x \in Range(xs) \cup Range(ys) : CountOf(x, xs) = CountOf(x, ys)
SpecDuplicate(question, existing_questions) ==
    \E e \in Range(existing_questions) :
        /\ Lower(Strip(Get(question, "question", <<>>)))
             = Lower(Strip(Get(e, "question", <<>>)))
        /\ SameCollection(StripLowerAll(Get(question, "options", <<>>)),
                          StripLowerAll(Get(e, "options", <<>>)))

\* xs and ys have the same length and differ, after trim and lowercase, at
\* exactly one position.
OneOptionDiffers(xs, ys) ==
    /\ Len(xs) = Len(ys)
    /\ Cardinality({i \in 1..Len(xs) :
           Lower(Strip(xs[i])) # Lower(Strip(ys[i]))}) = 1

\* C1: a call of is_duplicate_question (either implementation) returns true
\* iff some existing record has the same text after trim+lowercase and the
\* same option collection after trim+lowercase+sort; in particular a
\* candidate with one option that differs after normalization from the only
\* existing record is not a duplicate.
C1_GateIsExactMatch ==
    g_result.called =>
        /\ g_result.real_matura = SpecDuplicate(g_question, g_existing)
        /\ g_result.all_questions = SpecDuplicate(g_question, g_existing)
        /\ (/\ Len(g_existing) = 1
            /\ OneOptionDiffers(Get(g_question, "options", <<>>),
                                Get(g_existing[1], "options", <<>>)))
              => ~g_result.real_matura /\ ~g_result.all_questions

\* C1 witness: a candidate found to be a duplicate of a record whose text
\* differs in case and surrounding whitespace and whose options are the
\* candidate's in another order and another case.
C1_Witness ==
    /\ g_result.called
    /\ g_result.real_matura
    /\ g_result.all_questions
    /\ Len(g_existing) = 1
    /\ g_existing[1].question # g_question.question
    /\ Get(g_question, "options", <<>>) = << <<"a">>, <<"b">> >>
    /\ Get(g_existing[1], "options", <<>>) = << <<"b">>, <<"A", " ">> >>

-----------------------------------------------------------------------------
(* Quality Validator *)

\* validate_question_quality's thresholds and credits; the score is kept in
\* tenths (0.3 is 3): every sum of these credits that the code can form is,
\* in IEEE double arithmetic, the double nearest to the decimal sum.
MinWords == 5
RequiredOptions == 4
LengthCredit == 3
CountCredit == 3
AnswerCredit == 2
DistinctCredit == 2

\* ['A', 'B', 'C', 'D']
AnswerLetters == { <<"A">>, <<"B">>, <<"C">>, <<"D">> }

\* len(set(question.options)) != len(question.options)
HasRepeatedOption(options) == Cardinality(Range(options)) # Len(options)

\* The first pass of validate_question_quality: the issues in the order they
\* are appended.
Issues(question) ==
    (IF WordCount(question.question) < MinWords
        THEN <<"Question too short">> ELSE <<>>)
    \o (IF Len(question.options) # RequiredOptions
        THEN <<"Incorrect number of options">> ELSE <<>>)
    \o (IF question.correct_answer \notin AnswerLetters
        THEN <<"Invalid correct answer format">> ELSE <<>>)
    \o (IF HasRepeatedOption(question.options)
        THEN <<"Duplicate options found">> ELSE <<>>)

\* The mutant of Score below: the option-count credit is granted
\* unconditionally.
ScoreCountAlways(question) ==
    (IF WordCount(question.question) >= MinWords THEN LengthCredit ELSE 0)
    + CountCredit
    + (IF question.correct_answer \in AnswerLetters THEN AnswerCredit ELSE 0)
    + (IF ~HasRepeatedOption(question.options) THEN DistinctCredit ELSE 0)

\* The second pass: the score.
Score(question) ==
    (IF WordCount(question.question) >= MinWords THEN LengthCredit ELSE 0)
    + (IF Len(question.options) = RequiredOptions THEN CountCredit ELSE 0)
    + (IF question.correct_answer \in AnswerLetters THEN AnswerCredit ELSE 0)
    + (IF ~HasRepeatedOption(question.options) THEN DistinctCredit ELSE 0)

\* validate_question_quality: is_valid starts True and every issue sets it
\* False.
validate_question_quality(question) ==
    [called |-> TRUE,
     is_valid |-> Issues(question) = <<>>,
     issues |-> Issues(question),
     score |-> Score(question)]

\* Candidates: question texts of 5, 4, 6 (with extra whitespace) and 0 words;
\* option lists with 4 distinct options, 3 options, 5 options, a repeated
\* option, options equal up to case or whitespace, and no option; answers
\* that are a letter, an option value, both or neither.
ValidatorTexts ==
    { <<"a", " ", "b", " ", "c", " ", "d", " ", "a">>,
      <<"a", " ", "b", " ", "c", " ", "d">>,
      <<" ", "a", " ", " ", "b", " ", "c", " ", "d", " ", "a", " ", "b", " ">>,
      <<>> }
ValidatorOptionLists ==
    { << <<"a">>, <<"b">>, <<"c">>, <<"d">> >>,
      << <<"a">>, <<"b">>, <<"c">> >>,
      << <<"a">>, <<"b">>, <<"c">>, <<"d">>, <<"e">> >>,
      << <<"a">>, <<"b">>, <<"a">>, <<"d">> >>,
      << <<"a">>, <<"b">>, <<"A">>, <<"d">> >>,
      << <<"a">>, <<"b">>, <<"a", " ">>, <<"d">> >>,
      << <<"a">>, <<"a">>, <<"b">> >>,
      <<>> }
ValidatorAnswers ==
    { <<"A">>, <<"D">>, <<"E">>, <<"a">>, <<"d">>, <<"x">>, <<>> }
ValidatorCandidates ==
    [question : ValidatorTexts,
     options : ValidatorOptionLists,
     correct_answer : ValidatorAnswers]

NotValidated == [called |-> FALSE, is_valid |-> TRUE, issues |-> <<>>, score |-> 0]

ValidatorInit ==
    /\ v_question \in ValidatorCandidates
    /\ v_validation = NotValidated

\* One call of validate_question_quality.
Validate ==
    /\ ~v_validation.called
    /\ v_validation' = validate_question_quality(v_question)
    /\ UNCHANGED v_question

ValidatorNext == Validate /\ UNCHANGED <<gateVars, mutatorVars, indexVars, simpleVars, parserVars, variantVars, loadVars>>

\* The four rules of section 4.4 as the validator tests them (what the
\* answer rule and the duplicate rule accept is the subject of C6 and C7).
LengthRule(q) == WordCount(q.question) >= 5
CountRule(q) == Len(q.options) = 4
AnswerRule(q) == q.correct_answer \in AnswerLetters
DistinctRule(q) ==
    \A i, j \in 1..Len(q.options) : i # j => q.options[i] # q.options[j]
RulesFailed(q) ==
    (IF LengthRule(q) THEN 0 ELSE 1) + (IF CountRule(q) THEN 0 ELSE 1)
    + (IF AnswerRule(q) THEN 0 ELSE 1) + (IF DistinctRule(q) THEN 0 ELSE 1)

\* C5: is_valid is true exactly when all four rules pass; the score is the
\* sum of the credits 0.3, 0.3, 0.2, 0.2 of the rules that pass, also when
\* is_valid is false; issues holds one entry per failed rule; so a candidate
\* passing all rules scores 1.0 and is valid, and a candidate with 3 options
\* scores at most 0.7 and is invalid.
C5_ValidatorScoresRules ==
    v_validation.called =>
        /\ v_validation.is_valid
             = (/\ LengthRule(v_question) /\ CountRule(v_question)
                /\ AnswerRule(v_question) /\ DistinctRule(v_question))
        /\ v_validation.score
             = (IF LengthRule(v_question) THEN 3 ELSE 0)
               + (IF CountRule(v_question) THEN 3 ELSE 0)
               + (IF AnswerRule(v_question) THEN 2 ELSE 0)
               + (IF DistinctRule(v_question) THEN 2 ELSE 0)
        /\ Len(v_validation.issues) = RulesFailed(v_question)
        /\ (v_validation.is_valid <=> v_validation.score = 10)
        /\ (Len(v_question.options) = 3
              => v_validation.score <= 7 /\ ~v_validation.is_valid)

\* C5 witness: a candidate with 3 options was validated, judged invalid and
\* given the score 0.7.
C5_Witness ==
    /\ v_validation.called
    /\ Len(v_question.options) = 3
    /\ ~v_validation.is_valid
    /\ v_validation.score = 7
    /\ v_validation.issues = <<"Incorrect number of options">>

\* C6: a candidate whose correct answer is one of the letters A..D or equal
\* to one of its option values passes the answer rule: no invalid-answer
\* issue is reported.
C6_AnswerLetterOrOptionValue ==
    (/\ v_validation.called
     /\ \/ v_question.correct_answer \in AnswerLetters
        \/ v_question.correct_answer \in Range(v_question.options))
      => "Invalid correct answer format" \notin Range(v_validation.issues)

\* C7: two options equal after trimming and lowercasing give the
\* duplicate-options issue and is_valid = false, and every candidate judged
\* valid has 4 options pairwise distinct after normalization.
NormalizedDistinct(options) ==
    \A i, j \in 1..Len(options) :
        i # j => Lower(Strip(options[i])) # Lower(Strip(options[j]))
C7_DuplicateRuleNormalizes ==
    v_validation.called =>
        /\ ~NormalizedDistinct(v_question.options)
             => /\ "Duplicate options found" \in Range(v_validation.issues)
                /\ ~v_validation.is_valid
        /\ v_validation.is_valid
             => /\ Len(v_question.options) = 4
                /\ NormalizedDistinct(v_question.options)

-----------------------------------------------------------------------------
(* Admission of generated candidates into the session corpus *)

\* Bounds: the candidates of one generate request, and the size to which
\* generated_questions grows.
MaxBatch == 2
MaxGenerated == 4

FiveWordsA == <<"a", " ", "b", " ", "c", " ", "d", " ", "a">>
FiveWordsAVariant == <<" ", "A", " ", "b", " ", "c", " ", "d", " ", "a", " ">>
FiveWordsB == <<"b", " ", "c", " ", "d", " ", "a", " ", "b">>

\* Two questions of DZIQuestionGenerator's bank (4 options, the answer one
\* of them).
BankQuestionA ==
    [question |-> FiveWordsA,
     options |-> << <<"a">>, <<"b">>, <<"c">>, <<"d">> >>,
     correct_answer |-> <<"a">>]
BankQuestionB ==
    [question |-> FiveWordsB,
     options |-> << <<"a">>, <<"b">>, <<"c">>, <<"d">> >>,
     correct_answer |-> <<"b">>]
\* Records a model completion may hold: BankQuestionA again up to case,
\* whitespace and option order, and a record with 3 options.
VariantOfA ==
    [question |-> FiveWordsAVariant,
     options |-> << <<"d">>, <<"c">>, <<"B", " ">>, <<"a">> >>,
     correct_answer |-> <<"a">>]
ThreeOptions ==
    [question |-> <<"c", " ", "d", " ", "a", " ", "b", " ", "c">>,
     options |-> << <<"a">>, <<"b">>, <<"c">> >>,
     correct_answer |-> <<"a">>]

\* What DZIQuestionGenerator.generate_questions draws from.
BasicBank == { BankQuestionA, BankQuestionB }
\* What SimpleRAGGenerator.generate_questions may return: the "questions"
\* array of the completion is returned as parsed, unchecked.
RagCandidates == { BankQuestionA, BankQuestionB, VariantOfA, ThreeOptions }

\* num_language >= 1 and num_literature >= 1: a request yields at least two
\* candidates.
Batches(pool) == UNION { [1..n -> pool] : n \in 2..MaxBatch }

\* The real questions of the data files, already freed of repeats.
RealQuestionLoads == { <<>>, <<BankQuestionA>>, <<BankQuestionB, BankQuestionA>> }

NoReport ==
    [outcome |-> "none", method |-> "none", batch |-> <<>>,
     unique_new_questions |-> <<>>, skipped_count |-> 0,
     rag_real_questions |-> <<>>]

MutatorInit ==
    /\ m_app \in {"all_questions", "local"}
    /\ real_questions \in RealQuestionLoads
    /\ generated_questions = <<>>
    /\ m_report = NoReport

\* app_all_questions.py main: while generated_questions is empty every run
\* of the script first fills it with questions of the basic generator,
\* unchecked.
InitialGeneration ==
    /\ m_app = "all_questions"
    /\ generated_questions = <<>>
    /\ \E initial_questions \in Batches(BasicBank) :
        /\ generated_questions' = initial_questions
        /\ m_report' = [NoReport EXCEPT !.outcome = "initial",
                                        !.batch = initial_questions]
    /\ UNCHANGED <<m_app, real_questions>>

\* The mutant of UniqueNew below: the candidates found to be duplicates are
\* kept and the others dropped.
UniqueNewInverted(new_questions, existing) ==
    LET Keep(new_q) == is_duplicate_question_all(new_q, existing)
    IN  SelectSeq(new_questions, Keep)

\* unique_new_questions of the handler's loop.
UniqueNew(new_questions, existing) ==
    LET Keep(new_q) == ~is_duplicate_question_all(new_q, existing)
    IN  SelectSeq(new_questions, Keep)

\* skipped_count of the handler's loop.
SkippedCount(new_questions, existing) ==
    Cardinality({i \in 1..Len(new_questions) :
        is_duplicate_question_all(new_questions[i], existing)})

\* SimpleRAGGenerator.add_questions_to_database on a generator that has just
\* loaded the real questions.
add_questions_to_database(rag_real_questions, questions) ==
    rag_real_questions \o questions

\* app_all_questions.py, the "generate new" button with the generator
\* producing new_questions: the duplicates of generated_questions are
\* skipped, the rest is appended, and with the RAG method also added to the
\* generator's database.
GenerateNew ==
    /\ m_app = "all_questions"
    /\ generated_questions # <<>>
    /\ \E method \in {"basic", "rag"} :
       \E new_questions \in
              Batches(IF method = "basic" THEN BasicBank ELSE RagCandidates) :
        /\ Len(generated_questions) + Len(new_questions) <= MaxGenerated
        /\ LET unique_new_questions == UniqueNew(new_questions, generated_questions)
               skipped_count == SkippedCount(new_questions, generated_questions)
           IN  /\ generated_questions' = generated_questions \o unique_new_questions
               /\ m_report' =
                    [outcome |-> "done", method |-> method,
                     batch |-> new_questions,
                     unique_new_questions |-> unique_new_questions,
                     skipped_count |-> skipped_count,
                     rag_real_questions |->
                        IF method = "rag"
                        THEN add_questions_to_database(real_questions,
                                                       unique_new_questions)
                        ELSE <<>>]
    /\ UNCHANGED <<m_app, real_questions>>

\* Either app with the RAG method selected and no API key: SimpleRAGGenerator()
\* raises, the basic generator's Question objects take its place, and the
\* conversion q['subject'] = ... raises on them; the handler's outer except
\* reports the error and nothing is appended.
GenerateNewRagUnavailable ==
    /\ m_app = "local" \/ generated_questions # <<>>
    /\ m_report' = [NoReport EXCEPT !.outcome = "error", !.method = "rag"]
    /\ UNCHANGED <<m_app, real_questions, generated_questions>>

\* local_question_generator.py, the "generate new" button: every candidate
\* is appended.
LocalGenerateNew ==
    /\ m_app = "local"
    /\ \E method \in {"basic", "rag"} :
       \E new_questions \in
              Batches(IF method = "basic" THEN BasicBank ELSE RagCandidates) :
        /\ Len(generated_questions) + Len(new_questions) <= MaxGenerated
        /\ generated_questions' = generated_questions \o new_questions
        /\ m_report' =
             [outcome |-> "done", method |-> method, batch |-> new_questions,
              unique_new_questions |-> new_questions, skipped_count |-> 0,
              rag_real_questions |-> <<>>]
    /\ UNCHANGED <<m_app, real_questions>>

\* The "clear all" button of either app (local_question_generator.py keeps no
\* real questions).
ClearAll ==
    /\ generated_questions # <<>>
    /\ real_questions' = <<>>
    /\ generated_questions' = <<>>
    /\ m_report' = NoReport
    /\ UNCHANGED m_app

MutatorNext ==
    \/ InitialGeneration /\ UNCHANGED <<gateVars, validatorVars, indexVars, simpleVars, parserVars, variantVars, loadVars>>
    \/ GenerateNew /\ UNCHANGED <<gateVars, validatorVars, indexVars, simpleVars, parserVars, variantVars, loadVars>>
    \/ GenerateNewRagUnavailable /\ UNCHANGED <<gateVars, validatorVars, indexVars, simpleVars, parserVars, variantVars, loadVars>>
    \/ LocalGenerateNew /\ UNCHANGED <<gateVars, validatorVars, indexVars, simpleVars, parserVars, variantVars, loadVars>>
    \/ ClearAll /\ UNCHANGED <<gateVars, validatorVars, indexVars, simpleVars, parserVars, variantVars, loadVars>>

\* generated_questions as the last handler run found it.
GeneratedBefore ==
    SubSeq(generated_questions, 1,
           Len(generated_questions) - Len(m_report.unique_new_questions))

\* A candidate the Quality Validator accepts, counting an answer given as an
\* option value as a valid answer reference (section 4.4).
JudgedValid(q) ==
    LET validation == validate_question_quality(q)
    IN  \/ validation.is_valid
        \/ /\ validation.issues = <<"Invalid correct answer format">>
           /\ q.correct_answer \in Range(q.options)

\* C2: no candidate that the Quality Validator judges invalid is ever
\* appended to the corpus (generated_questions, or the RAG generator's
\* real_questions): what a handler run admitted is valid.
C2_OnlyValidAdmitted ==
    m_report.outcome = "done" =>
        /\ \A q \in Range(m_report.unique_new_questions) : JudgedValid(q)
        /\ \A q \in Range(generated_questions) : JudgedValid(q)
        /\ \A q \in Range(m_report.rag_real_questions) : JudgedValid(q)

\* The candidates of the last batch that duplicate a record of the corpus,
\* real or generated, as the handler found it.
DuplicatesOfCorpus ==
    {i \in 1..Len(m_report.batch) :
        SpecDuplicate(m_report.batch[i], real_questions \o GeneratedBefore)}

\* The candidates at the positions of `keep`, in the order of the batch.
RECURSIVE Restrict(_, _, _)
Restrict(batch, keep, i) ==
    IF i > Len(batch) THEN <<>>
    ELSE (IF i \in keep THEN <<batch[i]>> ELSE <<>>) \o Restrict(batch, keep, i + 1)

\* C3: in the all-questions app a candidate whose normalized text and option
\* set equal those of a record already in the corpus, real or previously
\* generated, is not admitted and is counted as one rejected duplicate.
C3_CorpusDuplicatesRejected ==
    (m_app = "all_questions" /\ m_report.outcome = "done") =>
        /\ \A i \in DuplicatesOfCorpus :
               m_report.batch[i] \notin Range(m_report.unique_new_questions)
        /\ m_report.skipped_count >= Cardinality(DuplicatesOfCorpus)

\* The candidates of the last batch that duplicate a record of
\* generated_questions as the handler found it.
RejectedDuplicate ==
    {i \in 1..Len(m_report.batch) :
        SpecDuplicate(m_report.batch[i], GeneratedBefore)}

\* C4: the result of a handler run is a partition of the batch: the
\* admitted candidates are the batch without the rejected duplicates, in
\* batch order (no candidate is rejected as invalid), the counts sum to the
\* batch size, and every admitted candidate is appended.
C4_ResultPartitionsBatch ==
    (m_app = "all_questions" /\ m_report.outcome = "done") =>
        /\ m_report.unique_new_questions
             = Restrict(m_report.batch,
                        (1..Len(m_report.batch)) \ RejectedDuplicate, 1)
        /\ m_report.skipped_count = Cardinality(RejectedDuplicate)
        /\ Len(m_report.unique_new_questions) + 0 + m_report.skipped_count
             = Len(m_report.batch)
        /\ generated_questions = GeneratedBefore \o m_report.unique_new_questions

\* C4 witness: a batch of which the first candidate was rejected as a
\* duplicate and the second admitted and appended.
C4_Witness ==
    /\ m_app = "all_questions"
    /\ m_report.outcome = "done"
    /\ Len(m_report.batch) = 2
    /\ m_report.unique_new_questions = <<m_report.batch[2]>>
    /\ m_report.skipped_count = 1
    /\ m_report.batch[1] # m_report.batch[2]
    /\ generated_questions[Len(generated_questions)] = m_report.batch[2]

\* C27: in the all-questions app generated_questions never holds two
\* records that are duplicates of each other under the Deduplication Gate
\* rule, after the initial generation and after every handler run.
C27_NoDuplicatesInCorpus ==
    (m_app = "all_questions") =>
        \A i, j \in 1..Len(generated_questions) :
            i < j => ~SpecDuplicate(generated_questions[j],
                                    <<generated_questions[i]>>)

-----------------------------------------------------------------------------
(* Embedding index, cache and retrieval *)

\* Bounds: the records appended to the second data file, and top_k.
MaxAppended == 1
MaxTopK == 2

\* Python's None, and a value that is not None.
None == [none |-> TRUE]
Some(v) == [none |-> FALSE, val |-> v]

\* Question records of the data files: with an answer, with options and an
\* answer, with neither.
IndexQuestion1 == [question |-> "q1", correct_answer |-> "a1"]
IndexQuestion2 ==
    [question |-> "q2", type |-> "multiple_choice",
     options |-> <<"o1", "o2">>, correct_answer |-> "o1"]
IndexQuestion3 == [question |-> "q3"]
\* A record with the question text of the first one (the same task set
\* again in another exam session).
IndexQuestion4 == [question |-> "q1"]
\* The records a newly parsed exam adds.
NewExamQuestions == { IndexQuestion3, IndexQuestion4 }

\* The two data files every caller names.
JsonFiles == <<"matura_21_05_2025", "matura_2025_avgust">>
\* json_files of a load_real_questions call.
JsonFileLists == { JsonFiles, <<"matura_21_05_2025">> }

Queries == { "q1", "a1" }

\* SentenceTransformer.encode of one text: a fixed vector per text. The
\* vectors all have norm 5, cosine similarity depending on direction only.
Encode(text) ==
    CASE text = "q1" -> <<5, 0>>
      [] text = "q2" -> <<0, 5>>
      [] text = "q3" -> <<3, 4>>
      [] text = "a1" -> <<4, 3>>
      [] text = "o1" -> <<-3, 4>>
      [] text = "o2" -> <<4, -3>>
      [] OTHER -> <<-5, 0>>

\* embedding_model.encode(texts)
encode(texts) == [i \in 1..Len(texts) |-> Encode(texts[i])]

\* The embedding model every caller constructs the objects with, and
\* another sentence-transformers model of the same embedding dimension.
DefaultModel == "paraphrase-multilingual-MiniLM-L12-v2"
OtherModel == "all-MiniLM-L6-v2"
EmbeddingModels == { DefaultModel, OtherModel }

\* SentenceTransformer(embedding_model).encode of one text: the other model
\* places the same text elsewhere in the space.
EncodeWith(embedding_model, text) ==
    IF embedding_model = DefaultModel THEN Encode(text)
    ELSE <<0 - Encode(text)[2], Encode(text)[1]>>

\* SentenceTransformer(embedding_model).encode(texts)
encode_with(embedding_model, texts) ==
    [i \in 1..Len(texts) |-> EncodeWith(embedding_model, texts[i])]

\* get_sentence_embedding_dimension()
EmbeddingDimension(embedding_model) == Len(EncodeWith(embedding_model, "q1"))

Dot(u, v) == u[1] * v[1] + u[2] * v[2]

\* cosine_similarity of two vectors of norm 5, in hundredths.
Cosine(u, v) == (Dot(u, v) * 100) \div 25

\* cosine_similarity(query_embedding, embeddings)[0]
cosine_similarity(query_embedding, embeddings) ==
    [i \in 1..Len(embeddings) |-> Cosine(query_embedding, embeddings[i])]

\* The least of a non-empty set of integers.
Min(S) == CHOOSE x \in S : \A y \in S : x <= y

\* np.argsort(similarities) over the positions S (from 0): every order of
\* the positions with ascending similarity. The default sort kind is not
\* stable, so positions of equal similarity come in any order.
RECURSIVE ArgSortsOf(_, _)
ArgSortsOf(S, similarities) ==
    IF S = {} THEN { <<>> }
    ELSE LET least == Min({ similarities[i + 1] : i \in S })
             first == { i \in S : similarities[i + 1] = least }
         IN  UNION { { <<i>> \o rest : rest \in ArgSortsOf(S \ {i}, similarities) } :
                     i \in first }
argsort(similarities) == ArgSortsOf(0..(Len(similarities) - 1), similarities)

\* xs[::-1]
Reverse(xs) == [i \in 1..Len(xs) |-> xs[Len(xs) + 1 - i]]

\* xs[:k]
Take(xs, k) == SubSeq(xs, 1, IF k < Len(xs) THEN k ELSE Len(xs))

\* similar_indices = np.argsort(similarities)[::-1][:top_k]
SimilarIndices(order, top_k) == Take(Reverse(order), top_k)

\* The questions of the files json_files names, in order.
RECURSIVE ReadQuestions(_, _)
ReadQuestions(json_files, contents) ==
    IF json_files = <<>> THEN <<>>
    ELSE contents[Head(json_files)] \o ReadQuestions(Tail(json_files), contents)

\* [q.get('question', '') for q in questions]
QuestionTexts(questions) ==
    [i \in 1..Len(questions) |-> Get(questions[i], "question", "")]

\* The texts of one question: its text, its options when it is a
\* multiple_choice record with options, its answer when it has one.
TextsOf(q) ==
    <<Get(q, "question", "")>>
    \o (IF Get(q, "type", "") = "multiple_choice" /\ "options" \in DOMAIN q
        THEN q.options ELSE <<>>)
    \o (IF "correct_answer" \in DOMAIN q THEN <<q.correct_answer>> ELSE <<>>)

\* all_texts / texts: the texts of every question, in corpus order.
RECURSIVE AllTexts(_)
AllTexts(questions) ==
    IF questions = <<>> THEN <<>>
    ELSE TextsOf(Head(questions)) \o AllTexts(Tail(questions))

\* The dict with the question vectors taken from all texts (question,
\* options, answer) instead of the question texts.
CacheDataAllTexts(embedding_model, all_questions) ==
    [questions |-> all_questions,
     question_texts |-> QuestionTexts(all_questions),
     all_texts |-> AllTexts(all_questions),
     question_embeddings |-> encode_with(embedding_model, AllTexts(all_questions)),
     all_embeddings |-> encode_with(embedding_model, AllTexts(all_questions)),
     model_name |-> EmbeddingDimension(embedding_model),
     total_questions |-> Len(all_questions)]

\* EmbeddingCache.compute_and_cache_embeddings: the dict it pickles.
CacheData(embedding_model, all_questions) ==
    [questions |-> all_questions,
     question_texts |-> QuestionTexts(all_questions),
     all_texts |-> AllTexts(all_questions),
     question_embeddings |->
         encode_with(embedding_model, QuestionTexts(all_questions)),
     all_embeddings |-> encode_with(embedding_model, AllTexts(all_questions)),
     model_name |-> EmbeddingDimension(embedding_model),
     total_questions |-> Len(all_questions)]

\* A cache file that cannot be opened or unpickled: open() or pickle.load
\* raises the named exception.
Unloadable(exception) == [raises |-> exception]

\* EmbeddingCache.load_cached_embeddings: None without a cache file, None
\* when open, pickle.load or cache_data['total_questions'] raises, else the
\* unpickled object.
load_cached_embeddings(cache_file) ==
    IF cache_file.none THEN None
    ELSE IF "raises" \in DOMAIN cache_file.val THEN None
    ELSE IF "total_questions" \notin DOMAIN cache_file.val THEN None
    ELSE cache_file

NoResult ==
    [op |-> "none", outcome |-> "none", error |-> "", query |-> "",
     top_k |-> 0, json_files |-> <<>>, results |-> <<>>, loaded |-> None]

\* EmbeddingCache.__init__
NewEmbeddingCache(embedding_model) == [embedding_model |-> embedding_model]

NewGenerator(use_cache) ==
    [use_cache |-> use_cache, questions |-> <<>>, embeddings |-> None,
     question_embeddings |-> None, cache_data |-> None]
NewAnalyzer == [questions |-> <<>>, embeddings |-> None]

IndexInit ==
    /\ files = [f \in Range(JsonFiles) |->
                   IF f = JsonFiles[1] THEN <<IndexQuestion1>>
                                       ELSE <<IndexQuestion2>>]
    /\ cache = None
    /\ ec = NewEmbeddingCache(DefaultModel)
    /\ \E use_cache \in BOOLEAN : gen = NewGenerator(use_cache)
    /\ ana = NewAnalyzer
    /\ res = NoResult

\* A record is appended to the second data file (a newly parsed exam).
ExtendFile ==
    /\ Len(files[JsonFiles[2]]) < 1 + MaxAppended
    /\ \E q \in NewExamQuestions :
           files' = [files EXCEPT ![JsonFiles[2]] = Append(@, q)]
    /\ res' = NoResult
    /\ UNCHANGED <<cache, ec, gen, ana>>

\* precompute_embeddings.py / EmbeddingCache.compute_and_cache_embeddings
\* over the two data files.
ComputeAndCache ==
    /\ cache' = Some(CacheData(ec.embedding_model,
                                ReadQuestions(JsonFiles, files)))
    /\ res' = [NoResult EXCEPT !.op = "compute_and_cache", !.outcome = "returned"]
    /\ UNCHANGED <<files, ec, gen, ana>>

\* RAGQuestionGenerator.load_real_questions: whether the cached snapshot is
\* taken (use_cache and a truthy cache_data).
LoadFromCache(g, cache_data, json_files) ==
    /\ g.use_cache
    /\ ~cache_data.none

\* RAGQuestionGenerator.load_real_questions(json_files)
GenLoad ==
    \E json_files \in JsonFileLists :
        LET cache_data == IF gen.use_cache THEN load_cached_embeddings(cache)
                          ELSE gen.cache_data
        IN  /\ gen' =
                 IF LoadFromCache(gen, cache_data, json_files)
                 THEN [gen EXCEPT !.cache_data = cache_data,
                                  !.questions = cache_data.val.questions,
                                  !.question_embeddings =
                                      Some(cache_data.val.question_embeddings),
                                  !.embeddings = Some(cache_data.val.all_embeddings)]
                 ELSE [gen EXCEPT !.cache_data = cache_data,
                                  !.questions = ReadQuestions(json_files, files)]
            /\ res' = [NoResult EXCEPT !.op = "gen_load", !.outcome = "returned",
                                       !.json_files = json_files]
            /\ UNCHANGED <<files, cache, ec, ana>>

\* RAGQuestionGenerator.create_embeddings
GenCreateEmbeddings ==
    /\ gen' =
         IF ~gen.cache_data.none THEN gen
         ELSE [gen EXCEPT !.question_embeddings =
                              Some(encode(QuestionTexts(gen.questions))),
                          !.embeddings = Some(encode(AllTexts(gen.questions)))]
    /\ res' = [NoResult EXCEPT !.op = "gen_create", !.outcome = "returned"]
    /\ UNCHANGED <<files, cache, ec, ana>>

\* find_similar_questions over an embedding array: the results it can
\* return, each the (idx, similarity) pairs of the top_k most similar
\* entries, idx counted from 0.
SimilarPairs(query_embedding, embeddings, top_k) ==
    LET similarities == cosine_similarity(query_embedding, embeddings)
    IN  { [k \in 1..Len(SimilarIndices(order, top_k)) |->
              <<SimilarIndices(order, top_k)[k],
                similarities[SimilarIndices(order, top_k)[k] + 1]>>] :
          order \in argsort(similarities) }

\* RAGQuestionGenerator.find_similar_questions(query, top_k): raises without
\* embeddings (and cosine_similarity raises on an empty array).
GenFind ==
    \E query \in Queries, top_k \in 1..MaxTopK :
        /\ IF gen.question_embeddings.none
                \/ gen.question_embeddings.val = <<>>
           THEN res' = [NoResult EXCEPT !.op = "gen_find", !.outcome = "raised",
                                        !.error = "ValueError",
                                        !.query = query, !.top_k = top_k]
           ELSE \E results \in SimilarPairs(Encode(query),
                                   gen.question_embeddings.val, top_k) :
                    res' = [NoResult EXCEPT !.op = "gen_find",
                                            !.outcome = "returned",
                                            !.query = query, !.top_k = top_k,
                                            !.results = results]
        /\ UNCHANGED <<files, cache, ec, gen, ana>>

\* MaturaVectorAnalyzer.load_real_questions(json_files)
AnaLoad ==
    \E json_files \in JsonFileLists :
        /\ ana' = [ana EXCEPT !.questions = ReadQuestions(json_files, files)]
        /\ res' = [NoResult EXCEPT !.op = "ana_load", !.outcome = "returned",
                                   !.json_files = json_files]
        /\ UNCHANGED <<files, cache, ec, gen>>

\* MaturaVectorAnalyzer.create_embeddings
AnaCreateEmbeddings ==
    /\ ana' = [ana EXCEPT !.embeddings = Some(encode(AllTexts(ana.questions)))]
    /\ res' = [NoResult EXCEPT !.op = "ana_create", !.outcome = "returned"]
    /\ UNCHANGED <<files, cache, ec, gen>>

\* The pairs find_similar_questions of the analyzer keeps: idx <
\* len(self.questions).
KeepBelow(pairs, n) ==
    LET Below(pair) == pair[1] < n
    IN  SelectSeq(pairs, Below)

\* MaturaVectorAnalyzer.find_similar_questions(query_text, top_k)
AnaFind ==
    \E query \in Queries, top_k \in 1..MaxTopK :
        /\ IF ana.embeddings.none \/ ana.embeddings.val = <<>>
           THEN res' = [NoResult EXCEPT !.op = "ana_find", !.outcome = "raised",
                                        !.error = "ValueError",
                                        !.query = query, !.top_k = top_k]
           ELSE \E results \in SimilarPairs(Encode(query),
                                   ana.embeddings.val, top_k) :
                    res' = [NoResult EXCEPT !.op = "ana_find",
                                            !.outcome = "returned",
                                            !.query = query, !.top_k = top_k,
                                            !.results = KeepBelow(results,
                                                Len(ana.questions))]
        /\ UNCHANGED <<files, cache, ec, gen, ana>>

IndexNext ==
    \/ ExtendFile /\ UNCHANGED <<gateVars, validatorVars, mutatorVars, simpleVars, parserVars, variantVars, loadVars>>
    \/ ComputeAndCache /\ UNCHANGED <<gateVars, validatorVars, mutatorVars, simpleVars, parserVars, variantVars, loadVars>>
    \/ GenLoad /\ UNCHANGED <<gateVars, validatorVars, mutatorVars, simpleVars, parserVars, variantVars, loadVars>>
    \/ GenCreateEmbeddings /\ UNCHANGED <<gateVars, validatorVars, mutatorVars, simpleVars, parserVars, variantVars, loadVars>>
    \/ GenFind /\ UNCHANGED <<gateVars, validatorVars, mutatorVars, simpleVars, parserVars, variantVars, loadVars>>
    \/ AnaLoad /\ UNCHANGED <<gateVars, validatorVars, mutatorVars, simpleVars, parserVars, variantVars, loadVars>>
    \/ AnaCreateEmbeddings /\ UNCHANGED <<gateVars, validatorVars, mutatorVars, simpleVars, parserVars, variantVars, loadVars>>
    \/ AnaFind /\ UNCHANGED <<gateVars, validatorVars, mutatorVars, simpleVars, parserVars, variantVars, loadVars>>

\* The embedding at position idx (from 0) of an array is the embedding of
\* the question text of entry idx of a corpus.
AlignedAt(idx, embeddings, questions) ==
    /\ idx + 1 \in DOMAIN embeddings
    /\ idx + 1 \in DOMAIN questions
    /\ embeddings[idx + 1] = Encode(Get(questions[idx + 1], "question", ""))

\* C8: for every (idx, similarity) pair a find_similar_questions call
\* returns, of the generator or of the analyzer, the embedding at array
\* position idx is the embedding of the question text of corpus entry idx.
C8_IndexAlignment ==
    /\ (res.op = "gen_find" /\ res.outcome = "returned")
         => \A k \in 1..Len(res.results) :
                AlignedAt(res.results[k][1], gen.question_embeddings.val,
                          gen.questions)
    /\ (res.op = "ana_find" /\ res.outcome = "returned")
         => \A k \in 1..Len(res.results) :
                AlignedAt(res.results[k][1], ana.embeddings.val, ana.questions)

\* C9: whenever find_similar_questions of the generator returns a result,
\* the question-embedding array has as many vectors as the corpus has
\* records and every returned index is an index of the corpus.
C9_RetrievalSeesEqualLengths ==
    (res.op = "gen_find" /\ res.outcome = "returned")
      => /\ Len(gen.question_embeddings.val) = Len(gen.questions)
         /\ \A k \in 1..Len(res.results) :
                res.results[k][1] + 1 \in DOMAIN gen.questions

\* C10: when the cache was built for N records and the named files now
\* hold N+1, a load treats the cache as a miss: the generator does not
\* continue with the cached N-record snapshot but holds the records of the
\* files.
C10_StaleCacheIsMiss ==
    (/\ res.op = "gen_load"
     /\ gen.use_cache
     /\ ~load_cached_embeddings(cache).none
     /\ Len(ReadQuestions(res.json_files, files)) = cache.val.total_questions + 1)
      => /\ gen.cache_data.none
         /\ gen.questions = ReadQuestions(res.json_files, files)

-----------------------------------------------------------------------------
(* EmbeddingCache: build, load and search of the cache file *)

\* The keys compute_and_cache_embeddings writes and the callers read.
CacheKeys ==
    { "questions", "question_texts", "all_texts", "question_embeddings",
      "all_embeddings", "model_name", "total_questions" }

\* A dict without one of its keys.
WithoutKey(dict, key) == [k \in (DOMAIN dict) \ {key} |-> dict[k]]

\* Whether a cache file holds a dict with every key.
IsCompleteCache(cache_file) ==
    /\ ~cache_file.none
    /\ DOMAIN cache_file.val = CacheKeys

\* The files that can take the place of a complete cache file: one that
\* cannot be read, one that does not unpickle, and dicts of another layout.
DamagedCaches(cache_data) ==
    { Unloadable("PermissionError"), Unloadable("UnpicklingError"),
      WithoutKey(cache_data, "total_questions"),
      WithoutKey(cache_data, "question_embeddings") }

\* An EmbeddingCache is constructed for an embedding model (same cache_dir).
CreateEmbeddingCache ==
    /\ \E embedding_model \in EmbeddingModels :
           ec' = NewEmbeddingCache(embedding_model)
    /\ res' = NoResult
    /\ UNCHANGED <<files, cache, gen, ana>>

\* The cache file is replaced from outside the program.
DamageCache ==
    /\ IsCompleteCache(cache)
    /\ \E damaged \in DamagedCaches(cache.val) : cache' = Some(damaged)
    /\ res' = NoResult
    /\ UNCHANGED <<files, ec, gen, ana>>

\* EmbeddingCache.compute_and_cache_embeddings when a step raises (nothing
\* in it catches): open or json.load of a data file, encode, open of the
\* cache file for writing, or pickle.dump after open(cache_file, 'wb') has
\* truncated the file, which leaves a file that does not unpickle.
ComputeAndCacheFails ==
    \E step \in { "read", "encode", "open", "dump" } :
        /\ cache' = IF step = "dump" THEN Some(Unloadable("EOFError")) ELSE cache
        /\ res' = [NoResult EXCEPT !.op = "compute_and_cache",
                                   !.outcome = "raised",
                                   !.error = CASE step = "read" -> "FileNotFoundError"
                                               [] step = "encode" -> "RuntimeError"
                                               [] OTHER -> "OSError"]
        /\ UNCHANGED <<files, ec, gen, ana>>

\* EmbeddingCache.clear_cache
ClearCache ==
    /\ cache' = None
    /\ res' = [NoResult EXCEPT !.op = "clear_cache", !.outcome = "returned"]
    /\ UNCHANGED <<files, ec, gen, ana>>

\* EmbeddingCache.load_cached_embeddings()
CacheLoad ==
    /\ res' = [NoResult EXCEPT !.op = "cache_load", !.outcome = "returned",
                               !.loaded = load_cached_embeddings(cache)]
    /\ UNCHANGED <<files, cache, ec, gen, ana>>

\* EmbeddingCache.get_similar_questions(query, top_k, use_cache)
CacheFind ==
    \E query \in Queries, top_k \in 1..MaxTopK, use_cache \in BOOLEAN :
        LET cache_data == load_cached_embeddings(cache)
            called == [NoResult EXCEPT !.op = "cache_find", !.query = query,
                                       !.top_k = top_k]
        IN  /\ IF ~use_cache \/ cache_data.none
               THEN res' = [called EXCEPT !.outcome = "returned"]
               ELSE IF ~({"questions", "question_embeddings"}
                           \subseteq DOMAIN cache_data.val)
               THEN res' = [called EXCEPT !.outcome = "raised",
                                          !.error = "KeyError"]
               ELSE IF cache_data.val.question_embeddings = <<>>
               THEN res' = [called EXCEPT !.outcome = "raised",
                                          !.error = "ValueError"]
               ELSE \E results \in SimilarPairs(
                                       EncodeWith(ec.embedding_model, query),
                                       cache_data.val.question_embeddings,
                                       top_k) :
                        res' = [called EXCEPT !.outcome = "returned",
                                              !.results = results]
            /\ UNCHANGED <<files, cache, ec, gen, ana>>

CacheInit ==
    /\ files = [f \in Range(JsonFiles) |->
                   IF f = JsonFiles[1] THEN <<IndexQuestion1>>
                                       ELSE <<IndexQuestion2>>]
    /\ cache = None
    /\ \E embedding_model \in EmbeddingModels :
           ec = NewEmbeddingCache(embedding_model)
    /\ gen = NewGenerator(TRUE)
    /\ ana = NewAnalyzer
    /\ res = NoResult

CacheNext ==
    \/ ExtendFile /\ UNCHANGED <<gateVars, validatorVars, mutatorVars, simpleVars, parserVars, variantVars, loadVars>>
    \/ ComputeAndCache /\ UNCHANGED <<gateVars, validatorVars, mutatorVars, simpleVars, parserVars, variantVars, loadVars>>
    \/ ComputeAndCacheFails /\ UNCHANGED <<gateVars, validatorVars, mutatorVars, simpleVars, parserVars, variantVars, loadVars>>
    \/ CreateEmbeddingCache /\ UNCHANGED <<gateVars, validatorVars, mutatorVars, simpleVars, parserVars, variantVars, loadVars>>
    \/ DamageCache /\ UNCHANGED <<gateVars, validatorVars, mutatorVars, simpleVars, parserVars, variantVars, loadVars>>
    \/ ClearCache /\ UNCHANGED <<gateVars, validatorVars, mutatorVars, simpleVars, parserVars, variantVars, loadVars>>
    \/ CacheLoad /\ UNCHANGED <<gateVars, validatorVars, mutatorVars, simpleVars, parserVars, variantVars, loadVars>>
    \/ CacheFind /\ UNCHANGED <<gateVars, validatorVars, mutatorVars, simpleVars, parserVars, variantVars, loadVars>>

\* C11: after compute_and_cache_embeddings over files holding N records,
\* load_cached_embeddings returns a structure whose questions are the N
\* records in file order, whose question_texts and question vectors have N
\* entries each, with total_questions = N and question_texts[i] the question
\* text of questions[i].
C11_BuildLoadRoundTrip ==
    (res.op = "compute_and_cache" /\ res.outcome = "returned")
      => LET loaded == load_cached_embeddings(cache)
             corpus == ReadQuestions(JsonFiles, files)
         IN  /\ ~loaded.none
             /\ loaded.val.questions = corpus
             /\ Len(loaded.val.question_texts) = Len(corpus)
             /\ Len(loaded.val.question_embeddings) = Len(corpus)
             /\ loaded.val.total_questions = Len(corpus)
             /\ \A i \in 1..Len(corpus) :
                    loaded.val.question_texts[i] = Get(corpus[i], "question", "")

\* A build has just written the cache for a corpus of three records, one of
\* them with options and an answer.
C11_Witness ==
    /\ res.op = "compute_and_cache"
    /\ res.outcome = "returned"
    /\ Len(ReadQuestions(JsonFiles, files)) = 3
    /\ ~load_cached_embeddings(cache).none

\* C12: load_cached_embeddings on an EmbeddingCache created for one
\* embedding model returns only vectors that model produced; a cache
\* written under another model is a miss.
C12_CacheKeyedByModel ==
    (/\ res.op = "cache_load"
     /\ ~res.loaded.none
     /\ {"question_texts", "question_embeddings"} \subseteq DOMAIN res.loaded.val)
      => res.loaded.val.question_embeddings =
             encode_with(ec.embedding_model, res.loaded.val.question_texts)

\* C13: load_cached_embeddings returns None, raising nothing, when the
\* cache file is absent, cannot be read or unpickled, or lacks an expected
\* key.
C13_LoadNeverFailsHard ==
    (/\ res.op = "cache_load"
     /\ ~IsCompleteCache(cache))
      => /\ res.outcome = "returned"
         /\ res.loaded.none

\* The number of vectors the last search ranked.
SearchedCount ==
    IF res.op = "gen_find" THEN Len(gen.question_embeddings.val)
    ELSE Len(cache.val.question_embeddings)

\* C14: a search that returns gives exactly min(top_k, n) pairs with
\* pairwise distinct indices, in non-increasing similarity, and of two
\* entries of equal similarity the one with the smaller index first.
C14_RetrieverOrder ==
    (/\ res.op \in {"gen_find", "cache_find"}
     /\ res.outcome = "returned"
     /\ res.results # <<>>)
      => /\ Len(res.results) =
                (IF res.top_k < SearchedCount THEN res.top_k ELSE SearchedCount)
         /\ \A j, k \in 1..Len(res.results) :
                j < k =>
                    /\ res.results[j][1] # res.results[k][1]
                    /\ res.results[j][2] >= res.results[k][2]
                    /\ (res.results[j][2] = res.results[k][2]
                          => res.results[j][1] < res.results[k][1])

\* Whether the last search had an embedding index to search.
IndexAvailable ==
    IF res.op = "gen_find"
    THEN /\ ~gen.question_embeddings.none
         /\ gen.question_embeddings.val # <<>>
    ELSE /\ IsCompleteCache(cache)
         /\ cache.val.question_embeddings # <<>>

\* C15: a search with top_k above the corpus size returns one result per
\* record; a search with no embedding index available fails with the
\* index-not-built error, and neither returns nor fails otherwise.
C15_SearchWithoutIndexFails ==
    (res.op \in {"gen_find", "cache_find"})
      => /\ (IndexAvailable /\ res.outcome = "returned"
               /\ res.top_k >= SearchedCount /\ res.results # <<>>)
              => Len(res.results) = SearchedCount
         /\ ~IndexAvailable
              => /\ res.outcome = "raised"
                 /\ res.error = "IndexNotBuiltError"

\* C26: a compute_and_cache_embeddings call that fails, at whatever step,
\* leaves a complete cached index as it was: load_cached_embeddings still
\* returns that index afterwards.
C26_FailedBuildKeepsCache ==
    [][(/\ res'.op = "compute_and_cache"
        /\ res'.outcome = "raised"
        /\ IsCompleteCache(cache))
          => load_cached_embeddings(cache') = cache]_vars

-----------------------------------------------------------------------------
(* SimpleRAGGenerator: construction, model requests and template fallback *)

\* Bounds: the count asked of generate_questions, and the questions one
\* completion holds.
MaxCount == 2
MaxReturned == 1

Subjects == { "language", "literature" }

\* The model identifiers of the two chat.completions.create calls.
PrimaryModel == "gpt-4.1-nano"
FallbackModel == "gpt-4.1-nano-2025-04-14"

\* The hand-written templates of _generate_basic_questions.
LanguageTemplates ==
    { [question |-> "sinonim na izklyuchitelen",
       options |-> <<"obiknoven", "redoven", "izvynreden", "standarten">>,
       correct_answer |-> "izvynreden"],
      [question |-> "antonim na dobyr",
       options |-> <<"hubav", "losh", "dobyr", "otlichen">>,
       correct_answer |-> "losh"] }
LiteratureTemplates ==
    { [question |-> "avtor na Pod igoto",
       options |-> <<"Ivan Vazov", "Hristo Botev", "Peyo Yavorov",
                     "Dimcho Debelyanov">>,
       correct_answer |-> "Ivan Vazov"],
      [question |-> "period na Hayduti",
       options |-> <<"Vyzrazhdaneto", "Srednovekovieto", "Antichnostta",
                     "Modernizma">>,
       correct_answer |-> "Vyzrazhdaneto"] }

SubjectName(subject) ==
    IF subject = "language" THEN "Bylgarski ezik" ELSE "Bylgarska literatura"

Difficulties == { "easy", "medium", "hard" }

\* One iteration of the loop of _generate_basic_questions: a copy of a
\* template of the subject with subject, difficulty and points set.
BasicQuestion(subject) ==
    { [question |-> template.question, options |-> template.options,
       correct_answer |-> template.correct_answer,
       subject |-> SubjectName(subject), difficulty |-> difficulty,
       points |-> 1] :
      template \in (IF subject = "language" THEN LanguageTemplates
                    ELSE LiteratureTemplates),
      difficulty \in Difficulties }

\* The lists with one record whatever count is.
BasicQuestionsOnce(count, subject) == [1..1 -> BasicQuestion(subject)]

\* SimpleRAGGenerator._generate_basic_questions(count, subject): the lists
\* it can return (random.choice per record).
_generate_basic_questions(count, subject) == [1..count -> BasicQuestion(subject)]

\* Records a completion's "questions" array can hold: complete, without
\* options, with three options, without a correct answer.
ModelRecords ==
    { [question |-> "vypros", options |-> <<"a", "b", "c", "d">>,
       correct_answer |-> "a"],
      [question |-> "vypros", correct_answer |-> "a"],
      [question |-> "vypros", options |-> <<"a", "b", "c">>,
       correct_answer |-> "a"],
      [question |-> "vypros", options |-> <<"a", "b", "c", "d">>] }

\* What one chat.completions.create call can do: raise, or return a
\* completion that is empty after strip(), holds no JSON, or holds a JSON
\* object with a "questions" array.
Responses ==
    { [kind |-> k, questions |-> <<>>] : k \in {"raises", "empty", "no_json"} }
    \cup { [kind |-> "json", questions |-> qs] :
           qs \in UNION { [1..n -> ModelRecords] : n \in 0..MaxReturned } }

\* SimpleRAGGenerator._generate_with_openai, given what the successive
\* create calls do: the model identifiers invoked, in order, and the list
\* returned ([] on any exception).
_generate_with_openai(responses) ==
    LET first == responses[1]
        afterFirst ==
            IF first.kind = "raises"
            THEN [calls |-> <<PrimaryModel, FallbackModel>>, taken |-> 2]
            ELSE [calls |-> <<PrimaryModel>>, taken |-> 1]
        response == responses[afterFirst.taken]
    IN  IF response.kind = "raises"
        THEN [calls |-> afterFirst.calls, questions |-> <<>>]
        ELSE IF response.kind = "empty"
        THEN [calls |-> Append(afterFirst.calls, FallbackModel),
              questions |->
                  IF responses[afterFirst.taken + 1].kind = "json"
                  THEN responses[afterFirst.taken + 1].questions
                  ELSE <<>>]
        ELSE [calls |-> afterFirst.calls,
              questions |-> IF response.kind = "json" THEN response.questions
                            ELSE <<>>]

\* What one _generate_with_openai request can come to, over everything the
\* create calls can do.
ModelRequestOutcomes ==
    { _generate_with_openai(responses) : responses \in [1..3 -> Responses] }

\* The real questions _load_real_questions finds: none when the data files
\* are absent.
SimpleRealQuestionLoads == { <<>>, <<IndexQuestion1>>, <<IndexQuestion1, IndexQuestion2>> }

\* SimpleRAGGenerator._find_similar_questions(subject, count): whether it
\* returns any question. Without a keyword match it falls back to the first
\* real questions, so it is empty exactly when there are none.
HasSimilarQuestions(real) == real # <<>>

NoSimpleResult ==
    [op |-> "none", outcome |-> "none", error |-> "", count |-> 0,
     subject |-> "", path |-> "", calls |-> <<>>, questions |-> <<>>]

SimpleInit ==
    /\ openai_api_key \in BOOLEAN
    /\ simple_rag = None
    /\ simple_res = NoSimpleResult

\* SimpleRAGGenerator()
SimpleConstruct ==
    /\ IF ~openai_api_key
       THEN /\ simple_res' = [NoSimpleResult EXCEPT !.op = "construct",
                                                    !.outcome = "raised",
                                                    !.error = "ValueError"]
            /\ UNCHANGED simple_rag
       ELSE /\ \E real \in SimpleRealQuestionLoads :
                   simple_rag' = Some([real_questions |-> real])
            /\ simple_res' = [NoSimpleResult EXCEPT !.op = "construct",
                                                    !.outcome = "returned"]
    /\ UNCHANGED openai_api_key

\* SimpleRAGGenerator.generate_questions(count, subject). On the model
\* path _generate_with_openai first creates the client, outside its try
\* block: when _get_openai_client raises, the exception leaves
\* generate_questions.
SimpleGenerate ==
    /\ ~simple_rag.none
    /\ \E count \in 1..MaxCount, subject \in Subjects :
         LET called == [NoSimpleResult EXCEPT !.op = "generate",
                                              !.outcome = "returned",
                                              !.count = count,
                                              !.subject = subject]
         IN  IF ~HasSimilarQuestions(simple_rag.val.real_questions)
             THEN \E basic \in _generate_basic_questions(count, subject) :
                      simple_res' = [called EXCEPT !.path = "template",
                                                   !.questions = basic]
             ELSE \/ simple_res' = [called EXCEPT !.outcome = "raised",
                                                   !.error = "ImportError"]
                  \/ \E generated \in ModelRequestOutcomes :
                      IF generated.questions = <<>>
                      THEN \E basic \in _generate_basic_questions(count, subject) :
                               simple_res' =
                                   [called EXCEPT !.path = "template_after_model",
                                                  !.calls = generated.calls,
                                                  !.questions = basic]
                      ELSE simple_res' =
                               [called EXCEPT !.path = "model",
                                              !.calls = generated.calls,
                                              !.questions = generated.questions]
    /\ UNCHANGED <<openai_api_key, simple_rag>>

SimpleNext ==
    \/ SimpleConstruct /\ UNCHANGED <<gateVars, validatorVars, mutatorVars, indexVars, parserVars, variantVars, loadVars>>
    \/ SimpleGenerate /\ UNCHANGED <<gateVars, validatorVars, mutatorVars, indexVars, parserVars, variantVars, loadVars>>

\* A record with exactly 4 pairwise distinct options and a correct answer
\* that is one of them.
StructurallyValid(q) ==
    /\ {"question", "options", "correct_answer"} \subseteq DOMAIN q
    /\ Len(q.options) = 4
    /\ Cardinality(Range(q.options)) = 4
    /\ q.correct_answer \in Range(q.options)

\* C16: with no API key configured, construction and generation do not
\* raise, and generation returns at least one structurally valid candidate.
C16_NoBackendUsesTemplates ==
    (~openai_api_key /\ simple_res.op # "none")
      => /\ simple_res.outcome = "returned"
         /\ simple_res.op = "generate"
              => \E k \in 1..Len(simple_res.questions) :
                     StructurallyValid(simple_res.questions[k])

\* C17: when no similar question is found, generate_questions takes the
\* template path: no model call, no failure, exactly count records, each
\* with 4 pairwise distinct options and a correct answer among them.
C17_TemplateFallback ==
    (/\ simple_res.op = "generate"
     /\ ~HasSimilarQuestions(simple_rag.val.real_questions))
      => /\ simple_res.outcome = "returned"
         /\ simple_res.path = "template"
         /\ simple_res.calls = <<>>
         /\ Len(simple_res.questions) = simple_res.count
         /\ \A k \in 1..Len(simple_res.questions) :
                StructurallyValid(simple_res.questions[k])

\* The template path produced two records from different templates.
C17_Witness ==
    /\ simple_res.op = "generate"
    /\ simple_res.path = "template"
    /\ simple_res.count = 2
    /\ Len(simple_res.questions) = 2
    /\ simple_res.questions[1].question # simple_res.questions[2].question

\* C18: one model request invokes the model at most twice, the primary
\* identifier first and then at most once the fallback identifier.
C18_BoundedRetry ==
    (simple_res.op = "generate")
      => /\ Len(simple_res.calls) <= 2
         /\ Len(simple_res.calls) >= 1 => simple_res.calls[1] = PrimaryModel
         /\ Len(simple_res.calls) >= 2 => simple_res.calls[2] = FallbackModel

\* C20: every record generate_questions returns from the model path has a
\* question text, exactly 4 options and a correct answer.
C20_ModelRecordsComplete ==
    (simple_res.op = "generate" /\ simple_res.path = "model")
      => \A k \in 1..Len(simple_res.questions) :
             /\ {"question", "options", "correct_answer"}
                    \subseteq DOMAIN simple_res.questions[k]
             /\ Len(simple_res.questions[k].options) = 4

\* C28: with an API key and count >= 1, whenever the model path of
\* generate_questions yields no questions (client creation or a call
\* raises, the completion stays empty, holds no JSON or no questions), the
\* template fallback runs and exactly count records are returned; the
\* request ends neither with an exception nor with an empty list.
C28_ModelFailureFallsBack ==
    (/\ simple_res.op = "generate"
     /\ simple_res.count >= 1
     /\ HasSimilarQuestions(simple_rag.val.real_questions)
     /\ simple_res.path # "model")
      => /\ simple_res.outcome = "returned"
         /\ simple_res.path = "template_after_model"
         /\ Len(simple_res.questions) = simple_res.count

-----------------------------------------------------------------------------
(* RAGQuestionGenerator._parse_generated_question *)

\* A completion is a sequence of tokens: the four markers, the letters A to
\* D, ")", newline, space, and lower-case letters for any other text.
QuestionMarker == "VYPROS:"
AnswerMarker == "VEREN_OTGOVOR:"
ExplanationMarker == "OBYASNENIE:"
TopicMarker == "TEMA:"
OptionLetters == <<"A", "B", "C", "D">>

\* \s
IsWhitespace(t) == t \in {" ", "\n"}

\* str.strip() of a token sequence.
RECURSIVE StripText(_)
StripText(text) ==
    IF text = <<>> THEN text
    ELSE IF IsWhitespace(Head(text)) THEN StripText(Tail(text))
    ELSE IF IsWhitespace(text[Len(text)])
         THEN StripText(SubSeq(text, 1, Len(text) - 1))
    ELSE text

Max(S) == CHOOSE x \in S : \A y \in S : x >= y

\* $ without re.MULTILINE: the end of the text, or just before a final
\* newline.
AtEnd(text, p) ==
    \/ p = Len(text) + 1
    \/ p = Len(text) /\ text[p] = "\n"

\* The lookahead that ends a lazy group: (?=\n[A-D]\)|$) after the question,
\* (?=\n[^A-D]|$) after an option, (?=\n|$) after explanation and topic.
LookAhead(field, text, p) ==
    \/ AtEnd(text, p)
    \/ /\ field = "question"
       /\ p + 2 <= Len(text)
       /\ text[p] = "\n"
       /\ text[p + 1] \in Range(OptionLetters)
       /\ text[p + 2] = ")"
    \/ /\ field = "option"
       /\ p + 1 <= Len(text)
       /\ text[p] = "\n"
       /\ text[p + 1] \notin Range(OptionLetters)
    \/ /\ field = "line"
       /\ p <= Len(text)
       /\ text[p] = "\n"

\* The length of the run of whitespace that starts at position j.
WhitespaceRun(text, j) ==
    Max({ k \in 0..(Len(text) + 1 - j) :
            \A i \in j..(j + k - 1) : IsWhitespace(text[i]) })

NoMatch == [found |-> FALSE, group |-> <<>>]

\* \s*(.+?)(?=...) matched from position j: \s* takes the longest run of
\* whitespace that lets the rest match, (.+?) the shortest non-empty text
\* after which the lookahead holds.
LazyGroup(text, j, field) ==
    LET ends(g) == { e \in g..Len(text) : LookAhead(field, text, e + 1) }
        skips == { k \in 0..WhitespaceRun(text, j) : ends(j + k) # {} }
    IN  IF skips = {} THEN NoMatch
        ELSE [found |-> TRUE,
              group |-> SubSeq(text, j + Max(skips), Min(ends(j + Max(skips))))]

\* re.search(marker \s*(.+?)(?=...), text, re.DOTALL): the match at the
\* leftmost position where the marker, of the given width, starts a match.
SearchGroup(text, starts, width, field) ==
    LET matching == { i \in starts : LazyGroup(text, i + width, field).found }
    IN  IF matching = {} THEN NoMatch
        ELSE LazyGroup(text, Min(matching) + width, field)

MarkerStarts(text, marker) == { i \in 1..Len(text) : text[i] = marker }

\* The positions where "letter)" starts.
OptionStarts(text, letter) ==
    { i \in 1..(Len(text) - 1) : text[i] = letter /\ text[i + 1] = ")" }

\* re.search(rf'{letter}\)\s*(.+?)(?=\n[^A-D]|$)', text, re.DOTALL)
OptionMatch(text, letter) == SearchGroup(text, OptionStarts(text, letter), 2, "option")

\* The options list: the stripped group of every letter that matches, in
\* the order A, B, C, D.
RECURSIVE ExtractOptions(_, _)
ExtractOptions(text, k) ==
    IF k > Len(OptionLetters) THEN <<>>
    ELSE (IF OptionMatch(text, OptionLetters[k]).found
          THEN <<StripText(OptionMatch(text, OptionLetters[k]).group)>>
          ELSE <<>>)
         \o ExtractOptions(text, k + 1)

\* re.search(r'VEREN_OTGOVOR:\s*([A-D])', text)
CorrectMatch(text) ==
    LET after(i) == i + 1 + WhitespaceRun(text, i + 1)
        matching == { i \in MarkerStarts(text, AnswerMarker) :
                        /\ after(i) <= Len(text)
                        /\ text[after(i)] \in Range(OptionLetters) }
    IN  IF matching = {} THEN NoMatch
        ELSE [found |-> TRUE, group |-> <<text[after(Min(matching))]>>]

ReturnedNone ==
    [called |-> TRUE, returned |-> "None", question |-> <<>>, options |-> <<>>,
     correct_answer |-> <<>>, explanation |-> <<>>, topic |-> <<>>,
     difficulty |-> ""]

NotParsed == [ReturnedNone EXCEPT !.called = FALSE]

\* RAGQuestionGenerator._parse_generated_question(generated_text, ...)
_parse_generated_question(text) ==
    LET question_match ==
            SearchGroup(text, MarkerStarts(text, QuestionMarker), 1, "question")
        options == ExtractOptions(text, 1)
        correct_match == CorrectMatch(text)
        explanation_match ==
            SearchGroup(text, MarkerStarts(text, ExplanationMarker), 1, "line")
        topic_match ==
            SearchGroup(text, MarkerStarts(text, TopicMarker), 1, "line")
    IN  IF ~question_match.found THEN ReturnedNone
        ELSE IF Len(options) # 4 THEN ReturnedNone
        ELSE IF ~correct_match.found THEN ReturnedNone
        ELSE [called |-> TRUE, returned |-> "GeneratedQuestion",
              question |-> StripText(question_match.group),
              options |-> options,
              correct_answer |-> correct_match.group,
              explanation |-> IF explanation_match.found
                              THEN StripText(explanation_match.group) ELSE <<>>,
              topic |-> IF topic_match.found THEN StripText(topic_match.group)
                        ELSE <<"general">>,
              difficulty |-> "medium"]

\* "\n".join of the lines that are present.
RECURSIVE JoinLines(_)
JoinLines(lines) ==
    IF lines = <<>> THEN <<>>
    ELSE IF Head(lines) = <<>> THEN JoinLines(Tail(lines))
    ELSE IF JoinLines(Tail(lines)) = <<>> THEN Head(lines)
    ELSE Head(lines) \o <<"\n">> \o JoinLines(Tail(lines))

\* The completions: each line is absent, as the prompt asks for it, or in a
\* form language models also produce.
Completions ==
    LET QuestionLines == { <<>>, <<QuestionMarker, " ", "q">>, <<QuestionMarker>> }
        OptionLines(letter, content) ==
            { <<>>, <<letter, ")", " ", content>>, <<letter, ")">> }
        AnswerLines ==
            { <<>>, <<AnswerMarker, " ", "A">>, <<AnswerMarker, " ", "e">>,
              <<AnswerMarker, " ", "D", ")", " ", "d">> }
        ExplanationLines == { <<>>, <<ExplanationMarker, " ", "e">> }
        TopicLines == { <<>>, <<TopicMarker, " ", "t">> }
    IN  { JoinLines(<<q, a, b, c, d, answer, explanation, topic>>) :
            q \in QuestionLines,
            a \in OptionLines("A", "a"), b \in OptionLines("B", "b"),
            c \in OptionLines("C", "c"), d \in OptionLines("D", "d"),
            answer \in AnswerLines, explanation \in ExplanationLines,
            topic \in TopicLines }

ParserInit ==
    /\ generated_text \in Completions
    /\ parsed = NotParsed

Parse ==
    /\ ~parsed.called
    /\ parsed' = _parse_generated_question(generated_text)
    /\ UNCHANGED generated_text

ParserNext ==
    Parse /\ UNCHANGED <<gateVars, validatorVars, mutatorVars, indexVars, simpleVars,
                        variantVars, loadVars>>

\* The lines of a text: the maximal runs of tokens without a newline.
HasLineStarting(text, prefix) ==
    \E i \in 1..Len(text) :
        /\ i = 1 \/ text[i - 1] = "\n"
        /\ i + Len(prefix) - 1 <= Len(text)
        /\ SubSeq(text, i, i + Len(prefix) - 1) = prefix

\* C19: _parse_generated_question returns a GeneratedQuestion only for a
\* completion with the question marker, an option line for each of A) to
\* D), and the correct-answer marker followed by a letter in A..D; the
\* record returned has a question, four options and that letter. Otherwise
\* it returns None.
C19_ParseAllOrNothing ==
    (parsed.called /\ parsed.returned = "GeneratedQuestion")
      => /\ MarkerStarts(generated_text, QuestionMarker) # {}
         /\ \A k \in 1..Len(OptionLetters) :
                HasLineStarting(generated_text, <<OptionLetters[k], ")">>)
         /\ CorrectMatch(generated_text).found
         /\ parsed.question # <<>>
         /\ Len(parsed.options) = 4
         /\ parsed.correct_answer \in { <<OptionLetters[k]>> : k \in 1..4 }

\* C22: every GeneratedQuestion _parse_generated_question returns (the
\* record save_generated_questions writes unchanged) has a correct_answer
\* that is one of the record's own options.
C22_AnswerIsOptionMember ==
    (parsed.called /\ parsed.returned = "GeneratedQuestion")
      => parsed.correct_answer \in Range(parsed.options)

\* The completion in the prescribed format: the question line, the lines
\* A) to D), then the correct-answer, explanation and topic lines.
PrescribedCompletion ==
    JoinLines(<< <<QuestionMarker, " ", "q">>,
                 <<"A", ")", " ", "a">>, <<"B", ")", " ", "b">>,
                 <<"C", ")", " ", "c">>, <<"D", ")", " ", "d">>,
                 <<AnswerMarker, " ", "A">>,
                 <<ExplanationMarker, " ", "e">>,
                 <<TopicMarker, " ", "t">> >>)

\* C25: for a completion in the prescribed format, _parse_generated_question
\* returns a record whose options[k] is exactly the text of the k-th
\* lettered line, with no text of another option line or of a marker line.
C25_OptionExtraction ==
    (parsed.called /\ generated_text = PrescribedCompletion)
      => /\ parsed.returned = "GeneratedQuestion"
         /\ parsed.options = << <<"a">>, <<"b">>, <<"c">>, <<"d">> >>

-----------------------------------------------------------------------------
(* RAGQuestionGenerator.generate_question_variants *)

\* Bound: num_variants of a request.
MaxVariants == 2

\* top_k of the retrieval step of generate_question_variants.
VariantTopK == 3

BaseQuestions == { "q1", "q2" }
RequestedDifficulties == { "medium", "hard" }

\* What llm.invoke does for one variant: it raises, or it returns a
\* completion: in the prescribed format, or one without the correct-answer
\* line.
VariantResponses ==
    LET Prescribed(q) ==
            JoinLines(<< <<QuestionMarker, " ", q>>,
                         <<"A", ")", " ", "a">>, <<"B", ")", " ", "b">>,
                         <<"C", ")", " ", "c">>, <<"D", ")", " ", "d">>,
                         <<AnswerMarker, " ", "B">>,
                         <<ExplanationMarker, " ", "e">>,
                         <<TopicMarker, " ", "t">> >>)
        NoAnswer ==
            JoinLines(<< <<QuestionMarker, " ", "q">>,
                         <<"A", ")", " ", "a">>, <<"B", ")", " ", "b">>,
                         <<"C", ")", " ", "c">>, <<"D", ")", " ", "d">> >>)
    IN  { [raises |-> TRUE, content |-> <<>>],
          [raises |-> FALSE, content |-> Prescribed("q")],
          [raises |-> FALSE, content |-> NoAnswer] }

\* _parse_generated_question of the completion of each response.
ParsedResponses ==
    [response \in VariantResponses |-> _parse_generated_question(response.content)]

NoVariants ==
    [op |-> "none", outcome |-> "none", error |-> "", base_question |-> "",
     num_variants |-> 0, difficulty |-> "", similar_questions |-> <<>>,
     responses |-> <<>>, invoked |-> <<>>, variants |-> <<>>]

\* context_questions: one dict per (idx, similarity) pair of the retrieval
\* result, in its order.
ContextQuestions(questions, similar_questions) ==
    [k \in 1..Len(similar_questions) |->
        LET q == questions[similar_questions[k][1] + 1]
        IN  [question |-> Get(q, "question", ""),
             options |-> Get(q, "options", <<>>),
             correct_answer |-> Get(q, "correct_answer", ""),
             type |-> Get(q, "type", ""),
             similarity |-> similar_questions[k][2]]]

\* The GeneratedQuestion _parse_generated_question builds from the fields
\* it extracted: source_indices = range(len(context_questions)), the
\* similarities of the context, difficulty "medium"; generation_method is
\* f"variant_{variant_number}".
GeneratedQuestion(fields, context_questions, variant_number) ==
    [question |-> fields.question,
     options |-> fields.options,
     correct_answer |-> fields.correct_answer,
     explanation |-> fields.explanation,
     difficulty |-> fields.difficulty,
     topic |-> fields.topic,
     source_questions |-> [k \in 1..Len(context_questions) |-> k - 1],
     similarity_scores |->
         [k \in 1..Len(context_questions) |-> context_questions[k].similarity],
     generation_method |-> variant_number]

\* The variant that leaves the loop of generate_question_variants on the
\* first variant that fails.
RECURSIVE VariantsUntilFailure(_, _, _, _)
VariantsUntilFailure(has_llm, responses, context_questions, i) ==
    IF i > Len(responses) THEN [invoked |-> <<>>, variants |-> <<>>]
    ELSE IF ~has_llm THEN [invoked |-> <<>>, variants |-> <<>>]
    ELSE IF responses[i].raises
              \/ ParsedResponses[responses[i]].returned = "None"
         THEN [invoked |-> <<i>>, variants |-> <<>>]
    ELSE LET rest == VariantsUntilFailure(has_llm, responses, context_questions, i + 1)
         IN  [invoked |-> <<i>> \o rest.invoked,
              variants |->
                  <<GeneratedQuestion(ParsedResponses[responses[i]],
                                      context_questions, i)>> \o rest.variants]

\* The loop of generate_question_variants over _generate_single_variant,
\* from variant number i: without a language model no variant invokes it
\* and each returns None; an invocation that raises, and a completion that
\* does not parse, give None; a variant that is None is not appended.
RECURSIVE GenerateVariantsFrom(_, _, _, _)
GenerateVariantsFrom(has_llm, responses, context_questions, i) ==
    IF i > Len(responses) THEN [invoked |-> <<>>, variants |-> <<>>]
    ELSE LET rest == GenerateVariantsFrom(has_llm, responses, context_questions, i + 1)
             fields == ParsedResponses[responses[i]]
         IN  IF ~has_llm THEN rest
             ELSE IF responses[i].raises \/ fields.returned = "None"
                  THEN [rest EXCEPT !.invoked = <<i>> \o @]
             ELSE [invoked |-> <<i>> \o rest.invoked,
                   variants |-> <<GeneratedQuestion(fields, context_questions, i)>>
                                    \o rest.variants]

VariantsInit ==
    /\ files = [f \in Range(JsonFiles) |->
                   IF f = JsonFiles[1] THEN <<IndexQuestion1>>
                                       ELSE <<IndexQuestion2, IndexQuestion3>>]
    /\ cache = None
    /\ ec = NewEmbeddingCache(DefaultModel)
    /\ gen = NewGenerator(FALSE)
    /\ ana = NewAnalyzer
    /\ res = NoResult
    /\ llm \in BOOLEAN
    /\ variants = NoVariants

\* RAGQuestionGenerator.generate_question_variants(base_question,
\* num_variants, difficulty); responses[i] is what the language model does
\* when variant i invokes it.
GenerateVariants ==
    \E base_question \in BaseQuestions, num_variants \in 1..MaxVariants,
       difficulty \in RequestedDifficulties :
      \E responses \in [1..num_variants -> VariantResponses] :
        LET called == [NoVariants EXCEPT !.op = "generate_question_variants",
                                         !.base_question = base_question,
                                         !.num_variants = num_variants,
                                         !.difficulty = difficulty,
                                         !.responses = responses]
        IN  /\ IF gen.question_embeddings.none \/ gen.question_embeddings.val = <<>>
               THEN variants' = [called EXCEPT !.outcome = "raised",
                                               !.error = "ValueError"]
               ELSE \E similar_questions \in
                        SimilarPairs(Encode(base_question),
                                     gen.question_embeddings.val, VariantTopK) :
                      IF \E k \in 1..Len(similar_questions) :
                             similar_questions[k][1] + 1 \notin DOMAIN gen.questions
                      THEN variants' = [called EXCEPT !.outcome = "raised",
                                                      !.error = "IndexError"]
                      ELSE LET generated ==
                                   GenerateVariantsFrom(llm, responses,
                                       ContextQuestions(gen.questions, similar_questions), 1)
                           IN  variants' =
                                   [called EXCEPT !.outcome = "returned",
                                                  !.similar_questions = similar_questions,
                                                  !.invoked = generated.invoked,
                                                  !.variants = generated.variants]
            /\ UNCHANGED <<llm, indexVars>>

\* A session of the generator: the corpus is loaded, the embeddings are
\* created, variants are requested; variants holds the
\* last generate_question_variants call until another operation runs.
VariantsNext ==
    \/ GenLoad /\ variants' = NoVariants
         /\ UNCHANGED <<llm, gateVars, validatorVars, mutatorVars, simpleVars, parserVars, loadVars>>
    \/ GenCreateEmbeddings /\ variants' = NoVariants
         /\ UNCHANGED <<llm, gateVars, validatorVars, mutatorVars, simpleVars, parserVars, loadVars>>
    \/ GenerateVariants /\ UNCHANGED <<gateVars, validatorVars, mutatorVars, simpleVars, parserVars, loadVars>>

\* C21: every GeneratedQuestion generate_question_variants returns has
\* source_questions equal to the corpus indices the retrieval step returned
\* for the request, in retrieval order, and similarity_scores[k] equal to
\* the similarity the retrieval step gave corpus entry source_questions[k].
C21_ProvenanceTrail ==
    (variants.op = "generate_question_variants" /\ variants.outcome = "returned")
      => \A i \in 1..Len(variants.variants) :
            LET v == variants.variants[i]
                similar == variants.similar_questions
            IN  /\ v.source_questions = [k \in 1..Len(similar) |-> similar[k][1]]
                /\ Len(v.similarity_scores) = Len(v.source_questions)
                /\ \A k \in 1..Len(v.source_questions) :
                       \E j \in 1..Len(similar) :
                           /\ similar[j][1] = v.source_questions[k]
                           /\ similar[j][2] = v.similarity_scores[k]

\* The variant numbers whose invocation returned a completion that parses.
RECURSIVE ParsedVariantNumbers(_, _)
ParsedVariantNumbers(responses, i) ==
    IF i > Len(responses) THEN <<>>
    ELSE (IF /\ ~responses[i].raises
             /\ ParsedResponses[responses[i]].returned = "GeneratedQuestion"
          THEN <<i>> ELSE <<>>)
         \o ParsedVariantNumbers(responses, i + 1)

\* C23: a generate_question_variants(base, n) call of a generator with a
\* language model that got its context invokes the model exactly once for
\* each of the n variants, in order; a variant whose invocation raises or
\* whose completion does not parse is skipped without ending the call, so
\* the list returned holds exactly the variants that parsed, in request
\* order, and has at most n entries.
C23_VariantFailureIsolation ==
    (/\ variants.op = "generate_question_variants"
     /\ variants.error \notin {"ValueError", "IndexError"})
      => /\ variants.outcome = "returned"
         /\ llm => variants.invoked = [i \in 1..variants.num_variants |-> i]
         /\ Len(variants.variants) <= variants.num_variants
         /\ llm => [i \in 1..Len(variants.variants) |->
                        variants.variants[i].generation_method]
                     = ParsedVariantNumbers(variants.responses, 1)

\* The first invocation raised and the second variant was still generated.
C23_Witness ==
    /\ variants.op = "generate_question_variants"
    /\ variants.outcome = "returned"
    /\ llm
    /\ variants.num_variants = 2
    /\ variants.responses[1].raises
    /\ Len(variants.variants) = 1
    /\ variants.variants[1].generation_method = 2

\* C24: when the generator has no language model (missing credentials), a
\* generate_question_variants call that got its context fails with a
\* generation-unavailable error; it does not return a list.
C24_BackendFailureSurfaced ==
    (/\ variants.op = "generate_question_variants"
     /\ ~llm
     /\ variants.error \notin {"ValueError", "IndexError"})
      => /\ variants.outcome = "raised"
         /\ variants.error = "GenerationUnavailableError"

\* C29: every GeneratedQuestion returned by generate_question_variants(base,
\* n, difficulty = d) has difficulty d.
C29_DifficultyCarriedThrough ==
    (variants.op = "generate_question_variants" /\ variants.outcome = "returned")
      => \A i \in 1..Len(variants.variants) :
             variants.variants[i].difficulty = variants.difficulty

-----------------------------------------------------------------------------
(* load_real_questions of the all-questions app *)

\* Bound: the records the data files hold.
MaxLoaded == 3

\* Records of the data files: with an underscore in an option or in the
\* question text, the same texts without it, one equal to another up to
\* case, whitespace and option order, one without options.
LoadRecords ==
    { [question |-> <<"a">>, options |-> << <<"b", "_", "c">> >>],
      [question |-> <<"a">>, options |-> << <<"b">>, <<"c">> >>],
      [question |-> <<" ", "A">>, options |-> << <<"c">>, <<"B", " ">> >>],
      [question |-> <<"a", "_", "b">>, options |-> << <<"c">> >>],
      [question |-> <<"a">>],
      [question |-> <<"a">>, options |-> << <<"b">>, <<"d">> >>],
      [question |-> <<"b">>, options |-> << <<"b">>, <<"c">> >>] }

NotLoaded == [called |-> FALSE, unique_questions |-> <<>>]

\* sep.join(xs)
RECURSIVE JoinWith(_, _)
JoinWith(sep, xs) ==
    IF xs = <<>> THEN <<>>
    ELSE IF Len(xs) = 1 THEN xs[1]
    ELSE xs[1] \o sep \o JoinWith(sep, Tail(xs))

\* question_id = f"{question_text}_{'_'.join(options)}"
QuestionId(q) ==
    LET question_text == Lower(Strip(Get(q, "question", <<>>)))
        options == Sorted(StripLowerAll(Get(q, "options", <<>>)))
    IN  question_text \o <<"_">> \o JoinWith(<<"_">>, options)

\* unique_questions of the loop over questions, given seen_questions.
RECURSIVE UniqueQuestions(_, _)
UniqueQuestions(questions, seen_questions) ==
    IF questions = <<>> THEN <<>>
    ELSE LET question_id == QuestionId(Head(questions))
         IN  IF question_id \in seen_questions
             THEN UniqueQuestions(Tail(questions), seen_questions)
             ELSE <<Head(questions)>>
                  \o UniqueQuestions(Tail(questions),
                                     seen_questions \cup {question_id})

LoadInit ==
    /\ l_questions \in UNION { [1..n -> LoadRecords] : n \in 0..MaxLoaded }
    /\ l_unique = NotLoaded

\* load_real_questions()
LoadRealQuestions ==
    /\ ~l_unique.called
    /\ l_unique' = [called |-> TRUE,
                    unique_questions |-> UniqueQuestions(l_questions, {})]
    /\ UNCHANGED l_questions

LoadNext ==
    LoadRealQuestions
      /\ UNCHANGED <<gateVars, validatorVars, mutatorVars, indexVars, simpleVars,
                     parserVars, variantVars>>

\* The positions of the load whose record duplicates no earlier record of
\* the load under is_duplicate_question.
FirstOfItsKind ==
    { i \in 1..Len(l_questions) :
        ~is_duplicate_question_all(l_questions[i], SubSeq(l_questions, 1, i - 1)) }

\* C30: load_real_questions drops a record exactly when an earlier record
\* of the load is its duplicate under is_duplicate_question (of either
\* app), and two records of the load get the same key exactly when
\* is_duplicate_question calls them duplicates.
C30_KeyAgreesWithGate ==
    l_unique.called =>
        /\ l_unique.unique_questions = Restrict(l_questions, FirstOfItsKind, 1)
        /\ \A i, j \in 1..Len(l_questions) :
               /\ (QuestionId(l_questions[i]) = QuestionId(l_questions[j]))
                    <=> is_duplicate_question_all(l_questions[i], <<l_questions[j]>>)
               /\ (QuestionId(l_questions[i]) = QuestionId(l_questions[j]))
                    <=> is_duplicate_question(l_questions[i], <<l_questions[j]>>)

GateIdle ==
    /\ g_question = [question |-> <<>>]
    /\ g_existing = <<>>
    /\ g_result = NotCalled

ValidatorIdle ==
    /\ v_question = [question |-> <<>>, options |-> <<>>, correct_answer |-> <<>>]
    /\ v_validation = NotValidated

MutatorIdle ==
    /\ m_app = "none"
    /\ real_questions = <<>>
    /\ generated_questions = <<>>
    /\ m_report = NoReport

IndexIdle ==
    /\ files = [f \in Range(JsonFiles) |-> <<>>]
    /\ cache = None
    /\ ec = NewEmbeddingCache(DefaultModel)
    /\ gen = NewGenerator(TRUE)
    /\ ana = NewAnalyzer
    /\ res = NoResult

SimpleIdle ==
    /\ openai_api_key = FALSE
    /\ simple_rag = None
    /\ simple_res = NoSimpleResult

ParserIdle ==
    /\ generated_text = <<>>
    /\ parsed = NotParsed

VariantsIdle ==
    /\ llm = FALSE
    /\ variants = NoVariants

LoadIdle ==
    /\ l_questions = <<>>
    /\ l_unique = NotLoaded

InitGate == GateInit /\ ValidatorIdle /\ MutatorIdle /\ IndexIdle /\ SimpleIdle /\ ParserIdle
        /\ VariantsIdle /\ LoadIdle
SpecGate == InitGate /\ [][GateNext]_vars

InitValidator == ValidatorInit /\ GateIdle /\ MutatorIdle /\ IndexIdle /\ SimpleIdle /\ ParserIdle
        /\ VariantsIdle /\ LoadIdle
SpecValidator == InitValidator /\ [][ValidatorNext]_vars

InitMutator == MutatorInit /\ GateIdle /\ ValidatorIdle /\ IndexIdle /\ SimpleIdle /\ ParserIdle
        /\ VariantsIdle /\ LoadIdle
SpecMutator == InitMutator /\ [][MutatorNext]_vars

InitIndex == IndexInit /\ GateIdle /\ ValidatorIdle /\ MutatorIdle /\ SimpleIdle /\ ParserIdle
        /\ VariantsIdle /\ LoadIdle
SpecIndex == InitIndex /\ [][IndexNext]_vars

InitCache == CacheInit /\ GateIdle /\ ValidatorIdle /\ MutatorIdle /\ SimpleIdle /\ ParserIdle
        /\ VariantsIdle /\ LoadIdle
SpecCache == InitCache /\ [][CacheNext]_vars

InitSimple == SimpleInit /\ GateIdle /\ ValidatorIdle /\ MutatorIdle /\ IndexIdle /\ ParserIdle
        /\ VariantsIdle /\ LoadIdle
SpecSimple == InitSimple /\ [][SimpleNext]_vars

InitParser ==
    ParserInit /\ GateIdle /\ ValidatorIdle /\ MutatorIdle /\ IndexIdle /\ SimpleIdle
        /\ VariantsIdle /\ LoadIdle
SpecParser == InitParser /\ [][ParserNext]_vars

InitVariants ==
    VariantsInit /\ GateIdle /\ ValidatorIdle /\ MutatorIdle /\ SimpleIdle /\ ParserIdle
        /\ LoadIdle
SpecVariants == InitVariants /\ [][VariantsNext]_vars

InitLoad ==
    LoadInit /\ GateIdle /\ ValidatorIdle /\ MutatorIdle /\ IndexIdle /\ SimpleIdle
        /\ ParserIdle /\ VariantsIdle
SpecLoad == InitLoad /\ [][LoadNext]_vars

====
